---- MODULE Spec2Model ----
(***************************************************************************)
(* SLB News Relevance Analyzer (UpstreamStreamlit.py): the session's       *)
(* keyword store, the relevance classifier, the editorial summary and the  *)
(* pipeline that ranks the stories of a feed.                              *)
(*                                                                         *)
(* A Python str is modelled as a sequence of one-character strings, so     *)
(* that lower(), strip(), `in`, endswith() and re.split() are computed     *)
(* character by character.                                                 *)
(***************************************************************************)
EXTENDS Integers, Sequences, FiniteSets, TLC

VARIABLES
    keywords_initialized,   \* st.session_state.keywords_initialized, or NotInSession
    high_keywords,          \* st.session_state.high_keywords
    moderate_keywords,      \* st.session_state.moderate_keywords
    relevant_keywords,      \* st.session_state.relevant_keywords
    stories,                \* main(): the parsed, truncated feed of the latest script run
    df,                     \* main(): the sorted DataFrame of the latest script run
    last,                   \* history: the latest user event and the store it found
    edits,                  \* history: number of Add / move clicks so far
    story,                  \* create_editorial_summary: its argument
    formatted_summary       \* create_editorial_summary: its return value, or NotRun

vars == <<keywords_initialized, high_keywords, moderate_keywords, relevant_keywords,
          stories, df, last, edits, story, formatted_summary>>

(***************************************************************************)
(* Bounds of the model.                                                    *)
(***************************************************************************)
\* A session is explored up to its MaxEdits-th change of the keyword lists.
MaxEdits == 2

(***************************************************************************)
(* Python str operations.                                                  *)
(***************************************************************************)
UPPER == <<"A", "B", "C", "D", "E", "F", "G", "H", "I", "J", "K", "L", "M",
           "N", "O", "P", "Q", "R", "S", "T", "U", "V", "W", "X", "Y", "Z">>

LOWER == <<"a", "b", "c", "d", "e", "f", "g", "h", "i", "j", "k", "l", "m",
           "n", "o", "p", "q", "r", "s", "t", "u", "v", "w", "x", "y", "z">>

UpperToLower ==
    [c \in {UPPER[i] : i \in 1..Len(UPPER)} |->
        LOWER[CHOOSE i \in 1..Len(UPPER) : UPPER[i] = c]]

\* str.lower() of one character
char_lower(c) == IF c \in DOMAIN UpperToLower THEN UpperToLower[c] ELSE c

\* str.lower()
lower(s) == [i \in 1..Len(s) |-> char_lower(s[i])]

\* characters str.strip() removes
Whitespace == {" ", "\t", "\n"}

\* str.strip()
strip(s) ==
    LET keep == {i \in 1..Len(s) : s[i] \notin Whitespace}
    IN  IF keep = {} THEN <<>>
        ELSE LET first == CHOOSE i \in keep : \A j \in keep : i <= j
                 lst   == CHOOSE i \in keep : \A j \in keep : j <= i
             IN  SubSeq(s, first, lst)

\* `sub in s` for two str
contains(s, sub) ==
    \E i \in 0..(Len(s) - Len(sub)) : \A j \in 1..Len(sub) : s[i + j] = sub[j]

\* s.endswith(('.', '!', '?'))
Terminators == {".", "!", "?"}

endswith_terminator(s) == Len(s) > 0 /\ s[Len(s)] \in Terminators

\* re.split(r'[.!?]+', s): the pieces between maximal runs of terminators;
\* `start` is where the piece being read begins
RECURSIVE re_split_from(_, _, _)
re_split_from(s, start, pieces) ==
    LET found == {i \in start..Len(s) : s[i] \in Terminators}
    IN  IF found = {} THEN Append(pieces, SubSeq(s, start, Len(s)))
        ELSE LET first == CHOOSE i \in found : \A j \in found : i <= j
                 after == {j \in (first + 1)..(Len(s) + 1) :
                              j = Len(s) + 1 \/ s[j] \notin Terminators}
                 next  == CHOOSE j \in after : \A k \in after : j <= k
             IN  re_split_from(s, next, Append(pieces, SubSeq(s, start, first - 1)))

re_split(s) == re_split_from(s, 1, <<>>)

\* sep.join(parts)
RECURSIVE join(_, _)
join(sep, parts) ==
    IF Len(parts) = 0 THEN <<>>
    ELSE IF Len(parts) = 1 THEN parts[1]
    ELSE parts[1] \o sep \o join(sep, Tail(parts))

\* list.append(x)
append(list, x) == Append(list, x)

\* faulty variant of remove: list.pop(0), which drops the head whatever x is
remove_head(list, x) == Tail(list)

\* list.remove(x): drops the first element equal to x
remove(list, x) ==
    LET hits == {i \in 1..Len(list) : list[i] = x}
    IN  IF hits = {} THEN list
        ELSE LET first == CHOOSE i \in hits : \A j \in hits : i <= j
             IN  SubSeq(list, 1, first - 1) \o SubSeq(list, first + 1, Len(list))

(***************************************************************************)
(* The default vocabulary (lines 21-44).                                   *)
(***************************************************************************)
DefaultHighKeywords ==
    <<
       <<"s", "l", "b">>,  \* 'slb'
       <<"s", "c", "h", "l", "u", "m", "b", "e", "r", "g", "e", "r">>,  \* 'schlumberger'
       <<"h", "a", "l", "l", "i", "b", "u", "r", "t", "o", "n">>,  \* 'halliburton'
       <<"b", "a", "k", "e", "r", " ", "h", "u", "g", "h", "e", "s">>,  \* 'baker hughes'
       <<"o", "i", "l", "f", "i", "e", "l", "d", " ", "s", "e", "r", "v", "i", "c", "e", "s">>,  \* 'oilfield services'
       <<"d", "r", "i", "l", "l", "i", "n", "g">>,  \* 'drilling'
       <<"c", "o", "m", "p", "l", "e", "t", "i", "o", "n">>,  \* 'completion'
       <<"f", "r", "a", "c", "k", "i", "n", "g">>,  \* 'fracking'
       <<"h", "y", "d", "r", "a", "u", "l", "i", "c", " ", "f", "r", "a", "c", "t", "u", "r", "i", "n", "g">>,  \* 'hydraulic fracturing'
       <<"w", "e", "l", "l", " ", "s", "e", "r", "v", "i", "c", "e", "s">>,  \* 'well services'
       <<"s", "u", "b", "s", "u", "r", "f", "a", "c", "e">>,  \* 'subsurface'
       <<"r", "e", "s", "e", "r", "v", "o", "i", "r">>,  \* 'reservoir'
       <<"l", "o", "g", "g", "i", "n", "g">>,  \* 'logging'
       <<"w", "i", "r", "e", "l", "i", "n", "e">>,  \* 'wireline'
       <<"c", "o", "i", "l", "e", "d", " ", "t", "u", "b", "i", "n", "g">>,  \* 'coiled tubing'
       <<"a", "r", "t", "i", "f", "i", "c", "i", "a", "l", " ", "l", "i", "f", "t">>,  \* 'artificial lift'
       <<"s", "t", "i", "m", "u", "l", "a", "t", "i", "o", "n">>,  \* 'stimulation'
       <<"c", "e", "m", "e", "n", "t", "i", "n", "g">>,  \* 'cementing'
       <<"m", "u", "d", " ", "l", "o", "g", "g", "i", "n", "g">>,  \* 'mud logging'
       <<"d", "i", "r", "e", "c", "t", "i", "o", "n", "a", "l", " ", "d", "r", "i", "l", "l", "i", "n", "g">>,  \* 'directional drilling'
       <<"m", "w", "d">>,  \* 'mwd'
       <<"l", "w", "d">>,  \* 'lwd'
       <<"m", "e", "a", "s", "u", "r", "e", "m", "e", "n", "t", " ", "w", "h", "i", "l", "e", " ", "d", "r", "i", "l", "l", "i", "n", "g">>,  \* 'measurement while drilling'
       <<"c", "a", "r", "b", "o", "n", " ", "c", "a", "p", "t", "u", "r", "e">>,  \* 'carbon capture'
       <<"c", "c", "s">>,  \* 'ccs'
       <<"c", "c", "u", "s">>,  \* 'ccus'
       <<"s", "e", "q", "u", "e", "s", "t", "r", "a", "t", "i", "o", "n">>,  \* 'sequestration'
       <<"c", "o", "2", " ", "i", "n", "j", "e", "c", "t", "i", "o", "n">>,  \* 'co2 injection'
       <<"d", "i", "g", "i", "t", "a", "l", " ", "o", "i", "l", "f", "i", "e", "l", "d">>,  \* 'digital oilfield'
       <<"p", "e", "t", "r", "o", "t", "e", "c", "h", "n", "i", "c", "a", "l">>,  \* 'petrotechnical'
       <<"g", "e", "o", "p", "h", "y", "s", "i", "c", "s">>,  \* 'geophysics'
       <<"p", "e", "t", "r", "o", "p", "h", "y", "s", "i", "c", "s">>  \* 'petrophysics'
    >>

DefaultModerateKeywords ==
    <<
       <<"e", "x", "p", "l", "o", "r", "a", "t", "i", "o", "n">>,  \* 'exploration'
       <<"p", "r", "o", "d", "u", "c", "t", "i", "o", "n">>,  \* 'production'
       <<"u", "p", "s", "t", "r", "e", "a", "m">>,  \* 'upstream'
       <<"o", "f", "f", "s", "h", "o", "r", "e">>,  \* 'offshore'
       <<"d", "e", "e", "p", "w", "a", "t", "e", "r">>,  \* 'deepwater'
       <<"u", "n", "c", "o", "n", "v", "e", "n", "t", "i", "o", "n", "a", "l">>,  \* 'unconventional'
       <<"s", "h", "a", "l", "e">>,  \* 'shale'
       <<"t", "i", "g", "h", "t", " ", "o", "i", "l">>,  \* 'tight oil'
       <<"e", "n", "h", "a", "n", "c", "e", "d", " ", "r", "e", "c", "o", "v", "e", "r", "y">>,  \* 'enhanced recovery'
       <<"f", "i", "e", "l", "d", " ", "d", "e", "v", "e", "l", "o", "p", "m", "e", "n", "t">>,  \* 'field development'
       <<"p", "r", "o", "j", "e", "c", "t", " ", "s", "a", "n", "c", "t", "i", "o", "n", "i", "n", "g">>,  \* 'project sanctioning'
       <<"f", "i", "n", "a", "l", " ", "i", "n", "v", "e", "s", "t", "m", "e", "n", "t", " ", "d", "e", "c", "i", "s", "i", "o", "n">>,  \* 'final investment decision'
       <<"t", "e", "c", "h", "n", "o", "l", "o", "g", "y">>,  \* 'technology'
       <<"i", "n", "n", "o", "v", "a", "t", "i", "o", "n">>,  \* 'innovation'
       <<"d", "i", "g", "i", "t", "a", "l", "i", "z", "a", "t", "i", "o", "n">>,  \* 'digitalization'
       <<"a", "u", "t", "o", "m", "a", "t", "i", "o", "n">>,  \* 'automation'
       <<"e", "s", "g">>,  \* 'esg'
       <<"s", "u", "s", "t", "a", "i", "n", "a", "b", "i", "l", "i", "t", "y">>,  \* 'sustainability'
       <<"e", "m", "i", "s", "s", "i", "o", "n", "s">>,  \* 'emissions'
       <<"d", "e", "c", "a", "r", "b", "o", "n", "i", "z", "a", "t", "i", "o", "n">>,  \* 'decarbonization'
       <<"l", "n", "g">>,  \* 'lng'
       <<"n", "a", "t", "u", "r", "a", "l", " ", "g", "a", "s">>,  \* 'natural gas'
       <<"o", "i", "l", " ", "p", "r", "i", "c", "e">>,  \* 'oil price'
       <<"c", "o", "m", "m", "o", "d", "i", "t", "y">>,  \* 'commodity'
       <<"e", "n", "e", "r", "g", "y", " ", "t", "r", "a", "n", "s", "i", "t", "i", "o", "n">>  \* 'energy transition'
    >>

DefaultRelevantKeywords ==
    <<
       <<"r", "e", "f", "i", "n", "i", "n", "g">>,  \* 'refining'
       <<"d", "o", "w", "n", "s", "t", "r", "e", "a", "m">>,  \* 'downstream'
       <<"p", "e", "t", "r", "o", "c", "h", "e", "m", "i", "c", "a", "l", "s">>,  \* 'petrochemicals'
       <<"m", "a", "r", "k", "e", "t", "i", "n", "g">>,  \* 'marketing'
       <<"r", "e", "n", "e", "w", "a", "b", "l", "e">>,  \* 'renewable'
       <<"s", "o", "l", "a", "r">>,  \* 'solar'
       <<"w", "i", "n", "d">>,  \* 'wind'
       <<"h", "y", "d", "r", "o", "g", "e", "n">>,  \* 'hydrogen'
       <<"e", "l", "e", "c", "t", "r", "i", "c", " ", "v", "e", "h", "i", "c", "l", "e">>,  \* 'electric vehicle'
       <<"p", "i", "p", "e", "l", "i", "n", "e">>,  \* 'pipeline'
       <<"m", "i", "d", "s", "t", "r", "e", "a", "m">>,  \* 'midstream'
       <<"t", "r", "a", "n", "s", "p", "o", "r", "t", "a", "t", "i", "o", "n">>,  \* 'transportation'
       <<"s", "t", "o", "r", "a", "g", "e">>  \* 'storage'
    >>

(***************************************************************************)
(* Program constants.                                                      *)
(***************************************************************************)
\* the value standing for "key not in st.session_state"; the flag is
\* otherwise "True" or "False"
NotInSession == "absent"

\* len(description) > 300
MaxDescription == 300

\* char_count + len(sentence) > 250
SummaryBudget == 250

\* st.sidebar.slider("Max stories to analyze", 10, 200, 200)
SliderMin == 10

SliderMax == 200

\* relevance_order = {'High': 0, 'Moderate': 1, 'Relevant': 2, 'Low': 3}
relevance_order == [High |-> 0, Moderate |-> 1, Relevant |-> 2, Low |-> 3]

(***************************************************************************)
(* analyze_slb_relevance (lines 115-142).                                  *)
(***************************************************************************)
\* sum(1 for keyword in keywords if keyword in text)
keyword_count(keywords, text) ==
    Cardinality({i \in 1..Len(keywords) : contains(text, keywords[i])})

\* [kw.lower() for kw in keywords]
lower_all(keywords) == [i \in 1..Len(keywords) |-> lower(keywords[i])]

\* f"{title} {description} {categories}" of the lowercased fields
search_text(st) ==
    lower(st.title) \o <<" ">> \o lower(st.description) \o <<" ">> \o lower(st.categories)

\* faulty variant of analyze_slb_relevance: the High rule without the two
\* company-name tests
analyze_without_name_rule(st, high, moderate, relevant) ==
    LET text           == search_text(st)
        high_count     == keyword_count(lower_all(high), text)
        moderate_count == keyword_count(lower_all(moderate), text)
        relevant_count == keyword_count(lower_all(relevant), text)
    IN  IF high_count >= 2 THEN "High"
        ELSE IF high_count >= 1 \/ moderate_count >= 2 THEN "Moderate"
        ELSE IF moderate_count >= 1 \/ relevant_count >= 1 THEN "Relevant"
        ELSE "Low"

\* faulty variant of analyze_slb_relevance: the Moderate rule tested after
\* the Relevant rule
analyze_relevant_before_moderate(st, high, moderate, relevant) ==
    LET text           == search_text(st)
        high_count     == keyword_count(lower_all(high), text)
        moderate_count == keyword_count(lower_all(moderate), text)
        relevant_count == keyword_count(lower_all(relevant), text)
    IN  IF \/ high_count >= 2
           \/ contains(text, <<"s", "l", "b">>)
           \/ contains(text, <<"s", "c", "h", "l", "u", "m", "b", "e", "r", "g", "e", "r">>)
        THEN "High"
        ELSE IF moderate_count >= 1 \/ relevant_count >= 1 THEN "Relevant"
        ELSE IF high_count >= 1 \/ moderate_count >= 2 THEN "Moderate"
        ELSE "Low"

analyze_slb_relevance(st, high, moderate, relevant) ==
    LET text           == search_text(st)
        high_count     == keyword_count(lower_all(high), text)
        moderate_count == keyword_count(lower_all(moderate), text)
        relevant_count == keyword_count(lower_all(relevant), text)
    IN  IF \/ high_count >= 2
           \/ contains(text, <<"s", "l", "b">>)
           \/ contains(text, <<"s", "c", "h", "l", "u", "m", "b", "e", "r", "g", "e", "r">>)
        THEN "High"
        ELSE IF high_count >= 1 \/ moderate_count >= 2 THEN "Moderate"
        ELSE IF moderate_count >= 1 \/ relevant_count >= 1 THEN "Relevant"
        ELSE "Low"

(***************************************************************************)
(* create_editorial_summary (lines 145-173).                               *)
(***************************************************************************)
\* the for loop over sentences: stops at the first sentence over the budget
RECURSIVE accumulate(_, _, _, _)
accumulate(sentences, i, char_count, summary_parts) ==
    IF i > Len(sentences) THEN summary_parts
    ELSE IF char_count + Len(sentences[i]) > SummaryBudget THEN summary_parts
    ELSE accumulate(sentences, i + 1, char_count + Len(sentences[i]),
                    Append(summary_parts, strip(sentences[i])))

\* faulty variant of long_summary: the joined sentences without the final
\* terminator test
long_summary_unterminated(description) ==
    join(<<".", " ">>, accumulate(re_split(description), 1, 0, <<>>))

\* the summary of the branch len(description) > 300
long_summary(description) ==
    LET summary == join(<<".", " ">>, accumulate(re_split(description), 1, 0, <<>>))
    IN  IF endswith_terminator(summary) THEN summary ELSE summary \o <<".">>

\* the summary of the else branch
short_summary(description) ==
    LET summary == strip(description)
    IN  IF endswith_terminator(summary) THEN summary ELSE summary \o <<".">>

\* " | "
Bar == <<" ", "|", " ">>

Upstream == <<"U", "p", "s", "t", "r", "e", "a", "m">>

create_editorial_summary(st) ==
    LET summary == IF Len(st.description) > MaxDescription
                   THEN long_summary(st.description)
                   ELSE short_summary(st.description)
    IN  summary \o Bar \o st.date \o Bar \o Upstream

(***************************************************************************)
(* main (lines 296-338): one pass over the fetched feed.                   *)
(***************************************************************************)
\* the loop building processed_stories, one append per story, and
\* pd.DataFrame(processed_stories): row i of the frame carries the index
\* label i (0-based)
RECURSIVE process_stories_from(_, _, _, _, _, _)
process_stories_from(ss, i, high, moderate, relevant, processed_stories) ==
    IF i > Len(ss) THEN processed_stories
    ELSE process_stories_from(ss, i + 1, high, moderate, relevant,
            Append(processed_stories,
                [index             |-> i - 1,
                 Title             |-> ss[i].title,
                 Relevance         |-> analyze_slb_relevance(ss[i], high, moderate, relevant),
                 Editorial_Summary |-> create_editorial_summary(ss[i]),
                 Date              |-> ss[i].date,
                 Author            |-> ss[i].author,
                 Categories        |-> ss[i].categories,
                 Link              |-> ss[i].link]))

\* faulty variant of process_stories: the stories classified against the
\* default vocabulary instead of the lists of the session
process_stories_with_defaults(ss, high, moderate, relevant) ==
    process_stories_from(ss, 1, DefaultHighKeywords, DefaultModerateKeywords,
                         DefaultRelevantKeywords, <<>>)

process_stories(ss, high, moderate, relevant) ==
    process_stories_from(ss, 1, high, moderate, relevant, <<>>)

\* the orderings of the rows numbered in `left` by sort_order: a row of the
\* least sort_order comes first, then any ordering of the others
RECURSIVE orderings(_, _)
orderings(rows, left) ==
    IF left = {} THEN {<<>>}
    ELSE LET least == {i \in left : \A j \in left :
                         relevance_order[rows[i].Relevance] <= relevance_order[rows[j].Relevance]}
         IN  UNION {{<<rows[i]>> \o rest : rest \in orderings(rows, left \ {i})} : i \in least}

\* df['sort_order'] = df['Relevance'].map(relevance_order), then
\* df.sort_values('sort_order'): pandas sorts one column with kind='quicksort',
\* which is not a stable sort, so rows of equal sort_order may come out in any
\* order: every ordering of the rows by sort_order is a possible result
sort_values(rows) == orderings(rows, 1..Len(rows))

\* stories[:max_stories]
truncate(ss, max_stories) ==
    SubSeq(ss, 1, IF max_stories < Len(ss) THEN max_stories ELSE Len(ss))

(***************************************************************************)
(* Inputs: the stories of the feed and the text typed into the Add boxes.  *)
(***************************************************************************)
PubDate == <<"2", "0", " ", "J", "u", "n", " ", "2", "0", "2", "5">>

Unknown == <<"U", "n", "k", "n", "o", "w", "n">>

NoTitle == <<"N", "o", " ", "t", "i", "t", "l", "e">>

\* a Story as parse_rss_content builds it
Story(title, description, categories) ==
    [title |-> title, link |-> <<>>, description |-> description,
     date |-> PubDate, author |-> Unknown, categories |-> categories]

SlbTitleStory == Story(<<"S", "L", "B">>, <<>>, <<>>)

SchlumbergerStory ==
    Story(<<"Q", "3">>, <<"S", "c", "h", "l", "u", "m", "B", "e", "r", "g", "e", "r">>, <<>>)

SlbCategoryStory == Story(NoTitle, <<>>, <<"o", "i", "l", ",", " ", "S", "l", "b">>)

MwdLwdStory == Story(<<"M", "W", "D", " ", "L", "W", "D">>, <<>>, <<>>)

CcsStory == Story(<<"C", "C", "S">>, <<>>, <<>>)

EsgLngStory == Story(<<"e", "s", "g">>, <<"L", "N", "G">>, <<>>)

LngStory == Story(<<"l", "n", "g">>, <<>>, <<>>)

WindStory == Story(NoTitle, <<"W", "i", "n", "d", ".">>, <<>>)

ZzStory == Story(<<"Z", "z">>, <<>>, <<>>)

NoTitleStory == Story(NoTitle, <<>>, <<>>)

\* "sl" and "b" meet only across the space that joins title and description
SplitStory == Story(<<"s", "l">>, <<"b">>, <<>>)

EmptyStory == Story(<<>>, <<>>, <<>>)

\* stories whose text names the company
NameStories == {SlbTitleStory, SchlumbergerStory, SlbCategoryStory}

ClassifyStories ==
    NameStories \cup {MwdLwdStory, CcsStory, EsgLngStory, LngStory, WindStory,
                      ZzStory, NoTitleStory, SplitStory, EmptyStory}

\* what fetch_rss_feed and parse_rss_content may return on a run; the empty
\* feed is also what a failed fetch or a parse error amounts to
Feeds ==
    { <<>>,
      <<NoTitleStory, ZzStory, SlbTitleStory>> }

\* max_stories, read from the slider
SliderValues == {SliderMin, SliderMax}

\* the text in an "Add new ... keyword" box when Add is clicked
TextInputs == { <<>>, <<"S", "L", "B">>, <<" ">>, <<"Z", "z">> }

\* the arrow buttons the user clicks: those of the first and of the last
\* keyword of a tab
Buttons(keywords) == {i \in 1..Len(keywords) : i = 1 \/ i = Len(keywords)}

(***************************************************************************)
(* One run of the script.                                                  *)
(***************************************************************************)
\* lines 17-44: the defaults are stored only when the key is not in the session
session_init(initialized, high, moderate, relevant) ==
    IF initialized = NotInSession
    THEN [keywords_initialized |-> "True",
          high_keywords        |-> DefaultHighKeywords,
          moderate_keywords    |-> DefaultModerateKeywords,
          relevant_keywords    |-> DefaultRelevantKeywords]
    ELSE [keywords_initialized |-> initialized,
          high_keywords        |-> high,
          moderate_keywords    |-> moderate,
          relevant_keywords    |-> relevant]

\* A run of the script from its first line, with no button pressed, on the
\* session state a handler left: the session is initialised if need be, the
\* feed is fetched, cut to max_stories, classified, summarised and sorted.
script_run(initialized, high, moderate, relevant) ==
    \E s \in {session_init(initialized, high, moderate, relevant)} :
        /\ keywords_initialized' = s.keywords_initialized
        /\ high_keywords' = s.high_keywords
        /\ moderate_keywords' = s.moderate_keywords
        /\ relevant_keywords' = s.relevant_keywords
        /\ \E fetched \in {truncate(feed, max_stories) : feed \in Feeds, max_stories \in SliderValues} :
              \E processed_stories \in {process_stories(fetched, s.high_keywords,
                                            s.moderate_keywords, s.relevant_keywords)} :
                  /\ stories' = fetched
                  /\ df' \in sort_values(processed_stories)

\* the store as the three lists
store == <<high_keywords, moderate_keywords, relevant_keywords>>

\* the record of a handler that wrote to the session state
event(op, keyword, from, to) ==
    [op |-> op, keyword |-> keyword, from |-> from, to |-> to, before |-> store]

(***************************************************************************)
(* The user's events.  Each is the handler of keyword_manager or main and  *)
(* the run of the script that st.rerun() (or the click itself) starts.     *)
(***************************************************************************)
\* the browser opens the page: the first run of the script
FirstRun ==
    /\ keywords_initialized = NotInSession
    /\ script_run(keywords_initialized, high_keywords, moderate_keywords, relevant_keywords)
    /\ last' = event("open", <<>>, "", "")
    /\ UNCHANGED <<edits, story, formatted_summary>>

\* lines 194-197
HighToModerate(i) ==
    /\ keywords_initialized # NotInSession
    /\ edits < MaxEdits
    /\ i \in Buttons(high_keywords)
    /\ LET keyword == high_keywords[i]
       IN  /\ script_run(keywords_initialized, remove(high_keywords, keyword),
                         append(moderate_keywords, keyword), relevant_keywords)
           /\ last' = event("move", keyword, "high", "moderate")
    /\ edits' = edits + 1
    /\ UNCHANGED <<story, formatted_summary>>

\* lines 199-202
HighToRelevant(i) ==
    /\ keywords_initialized # NotInSession
    /\ edits < MaxEdits
    /\ i \in Buttons(high_keywords)
    /\ LET keyword == high_keywords[i]
       IN  /\ script_run(keywords_initialized, remove(high_keywords, keyword),
                         moderate_keywords, append(relevant_keywords, keyword))
           /\ last' = event("move", keyword, "high", "relevant")
    /\ edits' = edits + 1
    /\ UNCHANGED <<story, formatted_summary>>

\* lines 220-223
ModerateToHigh(i) ==
    /\ keywords_initialized # NotInSession
    /\ edits < MaxEdits
    /\ i \in Buttons(moderate_keywords)
    /\ LET keyword == moderate_keywords[i]
       IN  /\ script_run(keywords_initialized, append(high_keywords, keyword),
                         remove(moderate_keywords, keyword), relevant_keywords)
           /\ last' = event("move", keyword, "moderate", "high")
    /\ edits' = edits + 1
    /\ UNCHANGED <<story, formatted_summary>>

\* lines 225-228
ModerateToRelevant(i) ==
    /\ keywords_initialized # NotInSession
    /\ edits < MaxEdits
    /\ i \in Buttons(moderate_keywords)
    /\ LET keyword == moderate_keywords[i]
       IN  /\ script_run(keywords_initialized, high_keywords,
                         remove(moderate_keywords, keyword), append(relevant_keywords, keyword))
           /\ last' = event("move", keyword, "moderate", "relevant")
    /\ edits' = edits + 1
    /\ UNCHANGED <<story, formatted_summary>>

\* lines 245-248
RelevantToHigh(i) ==
    /\ keywords_initialized # NotInSession
    /\ edits < MaxEdits
    /\ i \in Buttons(relevant_keywords)
    /\ LET keyword == relevant_keywords[i]
       IN  /\ script_run(keywords_initialized, append(high_keywords, keyword),
                         moderate_keywords, remove(relevant_keywords, keyword))
           /\ last' = event("move", keyword, "relevant", "high")
    /\ edits' = edits + 1
    /\ UNCHANGED <<story, formatted_summary>>

\* lines 250-253
RelevantToModerate(i) ==
    /\ keywords_initialized # NotInSession
    /\ edits < MaxEdits
    /\ i \in Buttons(relevant_keywords)
    /\ LET keyword == relevant_keywords[i]
       IN  /\ script_run(keywords_initialized, high_keywords,
                         append(moderate_keywords, keyword), remove(relevant_keywords, keyword))
           /\ last' = event("move", keyword, "relevant", "moderate")
    /\ edits' = edits + 1
    /\ UNCHANGED <<story, formatted_summary>>

\* lines 206-208, 231-233, 256-258: the list after the Add handler
add_keyword(keywords, new_keyword) ==
    IF \A i \in 1..Len(keywords) : lower(keywords[i]) # lower(new_keyword)
    THEN append(keywords, lower(new_keyword))
    ELSE keywords

\* lines 205-209
AddHigh(new_high) ==
    /\ keywords_initialized # NotInSession
    /\ edits < MaxEdits
    /\ Len(new_high) > 0
    /\ \E high \in {add_keyword(high_keywords, new_high)} :
          /\ script_run(keywords_initialized, high, moderate_keywords, relevant_keywords)
          /\ edits' = edits + (Len(high) - Len(high_keywords))
          /\ last' = IF high = high_keywords THEN last
                     ELSE event("add", lower(new_high), "", "high")
    /\ UNCHANGED <<story, formatted_summary>>

\* lines 230-234
AddModerate(new_moderate) ==
    /\ keywords_initialized # NotInSession
    /\ edits < MaxEdits
    /\ Len(new_moderate) > 0
    /\ \E moderate \in {add_keyword(moderate_keywords, new_moderate)} :
          /\ script_run(keywords_initialized, high_keywords, moderate, relevant_keywords)
          /\ edits' = edits + (Len(moderate) - Len(moderate_keywords))
          /\ last' = IF moderate = moderate_keywords THEN last
                     ELSE event("add", lower(new_moderate), "", "moderate")
    /\ UNCHANGED <<story, formatted_summary>>

\* lines 255-259
AddRelevant(new_relevant) ==
    /\ keywords_initialized # NotInSession
    /\ edits < MaxEdits
    /\ Len(new_relevant) > 0
    /\ \E relevant \in {add_keyword(relevant_keywords, new_relevant)} :
          /\ script_run(keywords_initialized, high_keywords, moderate_keywords, relevant)
          /\ edits' = edits + (Len(relevant) - Len(relevant_keywords))
          /\ last' = IF relevant = relevant_keywords THEN last
                     ELSE event("add", lower(new_relevant), "", "relevant")
    /\ UNCHANGED <<story, formatted_summary>>

\* lines 263-265: the flag is set to False and the script runs again
Reset ==
    /\ keywords_initialized # NotInSession
    /\ edits < MaxEdits
    /\ script_run("False", high_keywords, moderate_keywords, relevant_keywords)
    /\ last' = event("reset", <<>>, "", "")
    /\ UNCHANGED <<edits, story, formatted_summary>>

\* lines 293-294: the click runs the script again
RefreshFeed ==
    /\ keywords_initialized # NotInSession
    /\ edits < MaxEdits
    /\ script_run(keywords_initialized, high_keywords, moderate_keywords, relevant_keywords)
    /\ UNCHANGED <<last, edits, story, formatted_summary>>

\* lines 267-272: the counts shown in the sidebar
counts == <<Len(high_keywords), Len(moderate_keywords), Len(relevant_keywords)>>

NotRun == <<"not run">>

Init ==
    /\ keywords_initialized = NotInSession
    /\ high_keywords = <<>>
    /\ moderate_keywords = <<>>
    /\ relevant_keywords = <<>>
    /\ stories = <<>>
    /\ df = <<>>
    /\ last = [op |-> "none", keyword |-> <<>>, from |-> "", to |-> "",
               before |-> <<<<>>, <<>>, <<>>>>]
    /\ edits = 0
    /\ story = EmptyStory
    /\ formatted_summary = NotRun

Next ==
    \/ FirstRun
    \/ \E i \in 1..(Len(high_keywords)) : HighToModerate(i)
    \/ \E i \in 1..(Len(high_keywords)) : HighToRelevant(i)
    \/ \E i \in 1..(Len(moderate_keywords)) : ModerateToHigh(i)
    \/ \E i \in 1..(Len(moderate_keywords)) : ModerateToRelevant(i)
    \/ \E i \in 1..(Len(relevant_keywords)) : RelevantToHigh(i)
    \/ \E i \in 1..(Len(relevant_keywords)) : RelevantToModerate(i)
    \/ \E new_high \in TextInputs : AddHigh(new_high)
    \/ \E new_moderate \in TextInputs : AddModerate(new_moderate)
    \/ \E new_relevant \in TextInputs : AddRelevant(new_relevant)
    \/ Reset
    \/ RefreshFeed

Spec == Init /\ [][Next]_vars

(***************************************************************************)
(* create_editorial_summary on its own: a story is drawn, then summarised. *)
(***************************************************************************)
\* n copies of the character c
Rep(c, n) == [i \in 1..n |-> c]

\* how a description or a sentence may end
Endings == { <<>>, <<".">>, <<"!">>, <<"?">>, <<"?", "!">>, <<" ">>, <<".", " ">> }

\* descriptions of one sentence, around the 300-character threshold
OneSentence ==
    { Rep("a", n) \o e : n \in {0, 1, 298, 299, 300, 301}, e \in Endings }

\* descriptions of two or three sentences, around the 250-character budget
ManySentences ==
    { <<" ">> \o Rep("a", n1) \o e1 \o <<" ">> \o Rep("b", n2) \o e2 \o Rep("c", n3) :
        n1 \in {0, 100, 249, 250, 251}, n2 \in {0, 100, 140, 200}, n3 \in {0, 60},
        e1 \in {<<".">>, <<"?", "!">>, Rep(".", 60)}, e2 \in {<<"!">>, <<".", ".", ".">>} }

SummaryStories ==
    { [title |-> NoTitle, link |-> <<>>, description |-> d, date |-> dt,
       author |-> Unknown, categories |-> <<>>] :
        d \in OneSentence \cup ManySentences, dt \in {PubDate, Unknown} }

SummaryInit ==
    /\ keywords_initialized = NotInSession
    /\ high_keywords = <<>>
    /\ moderate_keywords = <<>>
    /\ relevant_keywords = <<>>
    /\ stories = <<>>
    /\ df = <<>>
    /\ last = [op |-> "none", keyword |-> <<>>, from |-> "", to |-> "",
               before |-> <<<<>>, <<>>, <<>>>>]
    /\ edits = 0
    /\ story \in SummaryStories
    /\ formatted_summary = NotRun

Summarize ==
    /\ formatted_summary = NotRun
    /\ formatted_summary' = create_editorial_summary(story)
    /\ UNCHANGED <<keywords_initialized, high_keywords, moderate_keywords,
                   relevant_keywords, stories, df, last, edits, story>>

SummaryNext == Summarize

SummarySpec == SummaryInit /\ [][SummaryNext]_vars

(***************************************************************************)
(* Properties.                                                             *)
(***************************************************************************)
slb == <<"s", "l", "b">>

schlumberger == <<"s", "c", "h", "l", "u", "m", "b", "e", "r", "g", "e", "r">>

DefaultStore == <<DefaultHighKeywords, DefaultModerateKeywords, DefaultRelevantKeywords>>

\* the keywords of a list, as a set
Members(keywords) == {keywords[i] : i \in 1..Len(keywords)}

\* the story a row of df was made from
StoryOf(row) == stories[row.index + 1]

\* the row of df made from the story with this title
RowTitled(title, relevance) ==
    \E i \in 1..Len(df) : df[i].Title = title /\ df[i].Relevance = relevance

\* C1: no keyword, compared case-insensitively, is in two of the three tiers.
C1_CrossTierUnique ==
    \A a, b \in 1..3 :
        a < b => \A i \in 1..Len(store[a]), j \in 1..Len(store[b]) :
                    lower(store[a][i]) # lower(store[b][j])

\* C2: once reset has run, the three tiers are the default vocabulary again
\* and counts() is (32, 25, 13).
C2_ResetRestoresDefaults ==
    last.op = "reset" => store = DefaultStore /\ counts = <<32, 25, 13>>

\* a field of the story holds "slb" or "schlumberger" in some letter case
MentionsName(st) ==
    \E field \in {st.title, st.description, st.categories} :
        contains(lower(field), slb) \/ contains(lower(field), schlumberger)

\* C3: a story whose title, description or categories name the company in
\* any letter case is classified High, whatever the keyword store holds.
C3_NameOverride ==
    \A st \in ClassifyStories :
        MentionsName(st) =>
            analyze_slb_relevance(st, high_keywords, moderate_keywords, relevant_keywords) = "High"

\* C3 witness: "slb" and "schlumberger" have left the high tier, the story
\* titled "SLB" hits no high-tier keyword, and the pipeline ranked it High.
C3_Witness ==
    /\ keywords_initialized # NotInSession
    /\ slb \notin Members(high_keywords)
    /\ schlumberger \notin Members(high_keywords)
    /\ keyword_count(lower_all(high_keywords), search_text(SlbTitleStory)) = 0
    /\ RowTitled(SlbTitleStory.title, "High")

\* the number of the tier's keywords that occur in the text
Hits(keywords, text) ==
    Cardinality({i \in 1..Len(keywords) : contains(text, keywords[i])})

\* the first rule that matches, in the order High, Moderate, Relevant, Low
FirstMatch(st) ==
    LET text == lower(st.title \o <<" ">> \o st.description \o <<" ">> \o st.categories)
    IN  CASE Hits(high_keywords, text) >= 2 \/ contains(text, slb) \/ contains(text, schlumberger)
               -> "High"
          [] Hits(high_keywords, text) >= 1 \/ Hits(moderate_keywords, text) >= 2
               -> "Moderate"
          [] Hits(moderate_keywords, text) >= 1 \/ Hits(relevant_keywords, text) >= 1
               -> "Relevant"
          [] OTHER -> "Low"

\* C4: every row's relevance is the result of the first matching rule,
\* computed on the story's lowercased text against the current store.
C4_FirstMatchingRule ==
    \A i \in 1..Len(df) : df[i].Relevance = FirstMatch(StoryOf(df[i]))

\* C4 witness: a story with no high-tier hit and two moderate-tier hits is
\* ranked Moderate, and another falls through every rule to Low.
C4_Witness ==
    /\ \E i \in 1..Len(df) :
          /\ df[i].Relevance = "Moderate"
          /\ Hits(high_keywords, search_text(StoryOf(df[i]))) = 0
          /\ Hits(moderate_keywords, search_text(StoryOf(df[i]))) = 2
    /\ \E i \in 1..Len(df) : df[i].Relevance = "High"

\* C5: df is sorted by relevance rank, and rows of equal relevance keep the
\* order they had in the truncated feed.
C5_StableSort ==
    \A i, j \in 1..Len(df) :
        i < j =>
            /\ relevance_order[df[i].Relevance] <= relevance_order[df[j].Relevance]
            /\ df[i].Relevance = df[j].Relevance => df[i].index < df[j].index

\* C6: the relevance shown for every story is the classification against
\* the keyword store as it is now, the latest edit included.
C6_EditTakesEffect ==
    \A i \in 1..Len(df) :
        df[i].Relevance =
            analyze_slb_relevance(StoryOf(df[i]), high_keywords, moderate_keywords,
                                  relevant_keywords)

\* C6 witness: "zz" has just been added to the relevant tier, and the story
\* "Zz", Low against the store before the edit, is now ranked Relevant.
C6_Witness ==
    /\ last.op = "add" /\ last.to = "relevant" /\ last.keyword = <<"z", "z">>
    /\ analyze_slb_relevance(ZzStory, last.before[1], last.before[2], last.before[3]) = "Low"
    /\ RowTitled(ZzStory.title, "Relevant")

\* the step is the move of the keyword of the latest event back to the tier
\* it came from
MovesBack ==
    /\ last.op = "move"
    /\ last'.op = "move"
    /\ last'.before = store
    /\ last'.keyword = last.keyword
    /\ last'.from = last.to
    /\ last'.to = last.from

\* C7: a move followed at once by the move of the same keyword back leaves
\* every tier with the members it had before the two moves.
C7_MoveRoundTrip ==
    [][MovesBack =>
          \A t \in 1..3 : Members(store[t])' = Members(last.before[t])]_vars

\* C7 witness: two moves have been made, the second undoing the first: the
\* tiers have their default members again, in another order.
C7_Witness ==
    /\ last.op = "move"
    /\ edits = 2
    /\ \A t \in 1..3 : Members(store[t]) = Members(DefaultStore[t])
    /\ \E t \in 1..3 : Members(last.before[t]) # Members(DefaultStore[t])
    /\ store # DefaultStore

\* C8: the summary is "{summary} | {date} | Upstream" with the story's date,
\* and {summary} ends in '.', '!' or '?'.
C8_SummaryShape ==
    formatted_summary # NotRun =>
        LET tail == Bar \o story.date \o Bar \o Upstream
            n    == Len(formatted_summary) - Len(tail)
        IN  /\ n >= 1
            /\ SubSeq(formatted_summary, n + 1, Len(formatted_summary)) = tail
            /\ formatted_summary[n] \in Terminators

\* C8 witness: a description over 300 characters whose first sentence alone
\* is over the budget is summarised as the single appended '.'.
C8_Witness ==
    /\ Len(story.description) > MaxDescription
    /\ Len(re_split(story.description)[1]) > SummaryBudget
    /\ formatted_summary = <<".">> \o Bar \o story.date \o Bar \o Upstream

\* C9: the story with empty title, description and categories hits no
\* keyword of any tier and is classified Low.
C9_EmptyStoryLow ==
    LET text == search_text(EmptyStory)
    IN  /\ keyword_count(lower_all(high_keywords), text) = 0
        /\ keyword_count(lower_all(moderate_keywords), text) = 0
        /\ keyword_count(lower_all(relevant_keywords), text) = 0
        /\ analyze_slb_relevance(EmptyStory, high_keywords, moderate_keywords,
                                 relevant_keywords) = "Low"

\* C10: no tier's list holds the same keyword twice.
C10_WithinTierUnique ==
    \A t \in 1..3 : \A i, j \in 1..Len(store[t]) : i < j => store[t][i] # store[t][j]

====
